---- MODULE Spec2Model ----
(***************************************************************************)
(* Model of the two upload-and-poll client scripts of the repository:     *)
(*   src/test-upload-simple.py  (urllib, hand-written multipart encoder,  *)
(*                               one try/except around upload and poll)   *)
(*   src/test-upload.py         (requests, explicit status-code checks,   *)
(*                               no exception handler)                    *)
(* The HTTP service is the environment: every response it can give is an  *)
(* input drawn from a bounded set at the step that receives it.           *)
(***************************************************************************)
EXTENDS Integers, Sequences, FiniteSets, TLC

VARIABLES
    script,     \* which of the two scripts is running
    pc,         \* position in the script
    result,     \* parsed JSON body of the upload response
    batch_id,   \* identifier extracted from result
    i,          \* loop variable of "for i in range(30)"
    batches,    \* parsed JSON body of the status response of this attempt
    batch,      \* record located in batches, None when there is none
    out,        \* lines printed by the most recent step
    exc,        \* exception raised, "None" while there is none
    exitCode,   \* process exit code, NotExited while running
    posts,      \* number of POST requests issued
    sleeps,     \* number of time.sleep(10) calls performed
    gets,       \* number of status GET requests issued
    allMissing, \* every status fetch so far gave a list without the target
    fields,     \* argument of encode_multipart_formdata: name -> value
    files,      \* argument of encode_multipart_formdata: name -> (filename, data)
    body,       \* first component of what encode_multipart_formdata returns
    content_type \* second component of what it returns

pollVars == <<script, pc, result, batch_id, i, batches, batch, out, exc,
              exitCode, posts, sleeps, gets, allMissing>>

encVars == <<fields, files, body, content_type>>

vars == <<pollVars, encVars>>

----------------------------------------------------------------------------
(* Bounds of the environment.                                              *)

MaxBatches == 2

MaxFields == 2

MaxData == 2

(* Program constants.                                                      *)

MaxAttempts == 30

SleepSeconds == 10

UrandomLen == 16

----------------------------------------------------------------------------
(* Values.                                                                 *)

Scripts == {"simple", "requests"}

None == "None"

NotExited == -1

\* an unbound dict / an empty mapping; also stands for Python's None in batch
Empty == [f \in {} |-> None]

Statuses == {"completed", "processing", "failed"}

OptFields == {"currentStep", "processedRecords", "totalRecords",
              "finexioMatchingStatus", "googleAddressStatus",
              "mastercardEnrichmentStatus", "akkioPredictionStatus"}

\* the value the server sends for an optional field it does send
ServerValue(f) ==
    CASE f = "currentStep"      -> "enrichment"
      [] f = "processedRecords" -> 5
      [] f = "totalRecords"     -> 7
      [] OTHER                  -> "done"

\* a batch object: a mapping whose keys are idk \cup stk \cup opts
BatchObject(idk, id, stk, st, opts) ==
    [f \in idk \cup stk \cup opts |->
        CASE f = "id"     -> id
          [] f = "status" -> st
          [] OTHER        -> ServerValue(f)]

\* objects without the optional fields. "b1" is the identifier the upload
\* answers with, "b2" is another batch, None is JSON null. The status varies
\* for "b1"; an object without id and one of another batch need no variation
\* of it, the search never reads their status
CoreObjects ==
    {BatchObject({}, None, {"status"}, "processing", {}),
     BatchObject({"id"}, "b2", {"status"}, "completed", {}),
     BatchObject({"id"}, None, {"status"}, "completed", {}),
     BatchObject({"id"}, "b1", {}, None, {})}
    \cup {BatchObject({"id"}, "b1", {"status"}, st, {}) : st \in Statuses}

\* objects of the uploaded batch with every combination of optional fields
FullObjects ==
    {BatchObject({"id"}, "b1", {"status"}, st, opts) :
         st \in {"completed", "processing"}, opts \in SUBSET OptFields}

RECURSIVE ListsUpTo(_, _)
ListsUpTo(S, n) ==
    IF n = 0 THEN {<< >>}
    ELSE LET shorter == ListsUpTo(S, n - 1)
         IN  shorter \cup {Append(l, x) : l \in shorter, x \in S}

BatchLists == ListsUpTo(CoreObjects, MaxBatches) \cup {<<r>> : r \in FullObjects}

HttpCodes == {200, 201, 500}

\* what the status endpoint can answer to one GET: no answer at all, or a
\* status code with a body that is JSON (a list of batch objects) or is not
StatusResponses ==
    {[kind |-> "neterr"]}
    \cup {[kind |-> "http", code |-> c, json |-> FALSE, body |-> << >>] :
              c \in HttpCodes}
    \cup {[kind |-> "http", code |-> c, json |-> TRUE, body |-> l] :
              c \in {200, 201}, l \in BatchLists}

\* the JSON objects the upload endpoint can answer with
UploadResults ==
    {[f \in D |-> "b1"] : D \in {{"id"}, {"batchId"}}}

UploadResponses ==
    {[kind |-> "neterr"]}
    \cup {[kind |-> "http", code |-> c, json |-> FALSE, body |-> Empty] :
              c \in HttpCodes}
    \cup {[kind |-> "http", code |-> c, json |-> TRUE, body |-> r] :
              c \in HttpCodes, r \in UploadResults}

----------------------------------------------------------------------------
(* Pure helpers.                                                           *)

\* dict.get(key, default)
Get(d, key, default) == IF key \in DOMAIN d THEN d[key] ELSE default

\* test-upload-simple.py: batch_id = result.get('id')
BatchIdSimple(res) == Get(res, "id", None)

\* a script that reads the identifier from the field the other script reads
BatchIdRequests_ReadsId(res) == Get(res, "id", None)

\* test-upload.py: batch_id = result.get('batchId')
BatchIdRequests(res) == Get(res, "batchId", None)

\* urllib raises HTTPError for every status outside 200..299
UrllibOk(code) == 200 <= code /\ code < 300

\* next((b for b in batches if b['id'] == batch_id), None), scanning from k
RECURSIVE LocateFrom(_, _, _)
LocateFrom(bs, target, k) ==
    IF k > Len(bs) THEN [kind |-> "none"]
    ELSE IF "id" \notin DOMAIN bs[k] THEN [kind |-> "KeyError"]
    ELSE IF bs[k]["id"] = target THEN [kind |-> "found", rec |-> bs[k]]
    ELSE LocateFrom(bs, target, k + 1)

Locate(bs, target) == LocateFrom(bs, target, 1)

\* bs is a list of batch objects, each with an id, none of them the target
LacksTarget(bs, t) ==
    \A k \in 1..Len(bs) : "id" \in DOMAIN bs[k] /\ bs[k]["id"] # t

\* a snapshot whose first lookup passes no default, as dict.get(key) does
Snapshot_NoDefault(b, n) ==
    << <<"Time", n * SleepSeconds>>,
       <<"Status", b["status"]>>,
       <<"Current Step", Get(b, "currentStep", None)>>,
       <<"Classification", Get(b, "processedRecords", 0),
                           Get(b, "totalRecords", 0)>>,
       <<"Finexio", Get(b, "finexioMatchingStatus", "pending")>>,
       <<"Google Address", Get(b, "googleAddressStatus", "pending")>>,
       <<"Mastercard", Get(b, "mastercardEnrichmentStatus", "pending")>>,
       <<"Akkio", Get(b, "akkioPredictionStatus", "pending")>> >>

\* the lines printed for a located record that carries a status
Snapshot(b, n) ==
    << <<"Time", n * SleepSeconds>>,
       <<"Status", b["status"]>>,
       <<"Current Step", Get(b, "currentStep", "N/A")>>,
       <<"Classification", Get(b, "processedRecords", 0),
                           Get(b, "totalRecords", 0)>>,
       <<"Finexio", Get(b, "finexioMatchingStatus", "pending")>>,
       <<"Google Address", Get(b, "googleAddressStatus", "pending")>>,
       <<"Mastercard", Get(b, "mastercardEnrichmentStatus", "pending")>>,
       <<"Akkio", Get(b, "akkioPredictionStatus", "pending")>> >>

\* a terminal test that also stops on a failed batch
IsTerminal_OrFailed(b) == b["status"] \in {"completed", "failed"}

\* a terminal test that never holds: the loop without its break
IsTerminal_Never(b) == FALSE

\* the terminal test of the loop
IsTerminal(b) == b["status"] = "completed"

----------------------------------------------------------------------------
(* encode_multipart_formdata of test-upload-simple.py. A str is a sequence *)
(* of code points, a bytes object a sequence of numbers in 0..255; the     *)
(* texts of the f-strings are spelled out as code points.                  *)

CRLF == <<13, 10>>

\* "--"
Dashes == <<45, 45>>

\* the double quote
Quote == <<34>>

\* '----WebKitFormBoundary'
BoundaryPrefix ==
    <<45, 45, 45, 45, 87, 101, 98, 75, 105, 116, 70, 111, 114, 109, 66,
    111, 117, 110, 100, 97, 114, 121>>

\* 'Content-Disposition: form-data; name="'
DispositionName ==
    <<67, 111, 110, 116, 101, 110, 116, 45, 68, 105, 115, 112, 111, 115,
    105, 116, 105, 111, 110, 58, 32, 102, 111, 114, 109, 45, 100, 97, 116,
    97, 59, 32, 110, 97, 109, 101, 61, 34>>

\* '"; filename="'
DispositionFilename ==
    <<34, 59, 32, 102, 105, 108, 101, 110, 97, 109, 101, 61, 34>>

\* 'Content-Type: text/csv'
ContentTypeCsv ==
    <<67, 111, 110, 116, 101, 110, 116, 45, 84, 121, 112, 101, 58, 32,
    116, 101, 120, 116, 47, 99, 115, 118>>

\* 'multipart/form-data; boundary='
MultipartBoundary ==
    <<109, 117, 108, 116, 105, 112, 97, 114, 116, 47, 102, 111, 114, 109,
    45, 100, 97, 116, 97, 59, 32, 98, 111, 117, 110, 100, 97, 114, 121,
    61>>

\* str.encode(): UTF-8
Utf8(cp) ==
    IF cp < 128 THEN <<cp>>
    ELSE IF cp < 2048 THEN <<192 + (cp \div 64), 128 + (cp % 64)>>
    ELSE IF cp < 65536
         THEN <<224 + (cp \div 4096), 128 + ((cp \div 64) % 64), 128 + (cp % 64)>>
    ELSE <<240 + (cp \div 262144), 128 + ((cp \div 4096) % 64),
           128 + ((cp \div 64) % 64), 128 + (cp % 64)>>

RECURSIVE Encode(_)
Encode(str) ==
    IF str = << >> THEN << >> ELSE Utf8(Head(str)) \o Encode(Tail(str))

\* one digit of bytes.hex(): '0'..'9', 'a'..'f'
HexDigit(n) == IF n < 10 THEN 48 + n ELSE 87 + n

\* bytes.hex()
RECURSIVE Hex(_)
Hex(bs) ==
    IF bs = << >> THEN << >>
    ELSE <<HexDigit(Head(bs) \div 16), HexDigit(Head(bs) % 16)>> \o Hex(Tail(bs))

\* boundary = '----WebKitFormBoundary' + os.urandom(16).hex()
Boundary(rnd) == BoundaryPrefix \o Hex(rnd)

\* an encoder that leaves out the empty line after the headers of a field
FieldPart_NoEmptyLine(boundary, name, value) ==
    Encode(Dashes \o boundary \o CRLF)
    \o Encode(DispositionName \o name \o Quote \o CRLF)
    \o Encode(value \o CRLF)

\* the three writes of the loop over fields.items()
FieldPart(boundary, name, value) ==
    Encode(Dashes \o boundary \o CRLF)
    \o Encode(DispositionName \o name \o Quote \o CRLF \o CRLF)
    \o Encode(value \o CRLF)

\* the five writes of the loop over files.items()
FilePart(boundary, name, filename, file_data) ==
    Encode(Dashes \o boundary \o CRLF)
    \o Encode(DispositionName \o name \o DispositionFilename \o filename
              \o Quote \o CRLF)
    \o Encode(ContentTypeCsv \o CRLF \o CRLF)
    \o file_data
    \o CRLF

RECURSIVE FieldParts(_, _, _)
FieldParts(boundary, fs, k) ==
    IF k > Len(fs) THEN << >>
    ELSE FieldPart(boundary, fs[k][1], fs[k][2]) \o FieldParts(boundary, fs, k + 1)

RECURSIVE FileParts(_, _, _)
FileParts(boundary, fl, k) ==
    IF k > Len(fl) THEN << >>
    ELSE FilePart(boundary, fl[k][1], fl[k][2][1], fl[k][2][2])
         \o FileParts(boundary, fl, k + 1)

\* the closing boundary line
Closing(boundary) == Encode(Dashes \o boundary \o Dashes \o CRLF)

\* what the function returns for the outcome rnd of os.urandom(16); a
\* mapping is the sequence of its items in insertion order
encode_multipart_formdata(fs, fl, rnd) ==
    LET boundary == Boundary(rnd) IN
    [body |-> FieldParts(boundary, fs, 1) \o FileParts(boundary, fl, 1)
              \o Closing(boundary),
     content_type |-> MultipartBoundary \o boundary]

(* Inputs of the encoder.                                                  *)

\* 'a', 'é', 'a"; filename="b'
SampleNames ==
    {<<97>>, <<233>>, <<97, 34, 59, 32, 102, 105, 108, 101, 110, 97, 109,
    101, 61, 34, 98>>}

\* 'true', 'é"', a value of CR LF and dashes
SampleValues == {<<116, 114, 117, 101>>, <<233, 34>>, <<13, 10, 45, 45>>}

\* 'f.csv', 'f"; name="g'
SampleFilenames ==
    {<<102, 46, 99, 115, 118>>, <<102, 34, 59, 32, 110, 97, 109, 101, 61,
    34, 103>>}

\* bytes of file contents: CR, LF, and a byte that is no UTF-8
DataBytes == {13, 10, 255}

\* outcomes of os.urandom(16): one byte value repeated
RandomOutcomes == {[k \in 1..UrandomLen |-> b] : b \in {0, 171}}

RECURSIVE FieldMapsOf(_)
FieldMapsOf(n) ==
    IF n = 0 THEN {<< >>}
    ELSE LET shorter == FieldMapsOf(n - 1) IN
         shorter \cup
         {Append(m, <<nm, v>>) :
              m \in {x \in shorter : Len(x) = n - 1},
              nm \in SampleNames, v \in SampleValues}

NoRepeatedKey(m) ==
    \A a, b \in 1..Len(m) : a # b => m[a][1] # m[b][1]

FieldMaps == {m \in FieldMapsOf(MaxFields) : NoRepeatedKey(m)}

\* 'file'
FileKey == <<102, 105, 108, 101>>

FileMaps ==
    {<< <<FileKey, <<fn, d>>>> >> :
         fn \in SampleFilenames, d \in ListsUpTo(DataBytes, MaxData)}

----------------------------------------------------------------------------
(* Control flow shared by the actions.                                     *)

\* both scripts without a handler
Raise_Uncaught(e, printed) ==
    /\ exc' = e
    /\ pc' = "done"
    /\ out' = printed
    /\ exitCode' = 1

\* an exception propagates: test-upload-simple.py catches it in its one
\* handler, prints it and falls off the end of the script; test-upload.py
\* has no handler, the interpreter prints a traceback and exits with 1
Raise(e, printed) ==
    /\ exc' = e
    /\ pc' = "done"
    /\ IF script = "simple"
       THEN /\ out' = Append(printed, <<"Error", e>>)
            /\ exitCode' = 0
       ELSE /\ out' = printed
            /\ exitCode' = 1

\* a loop that gives up one attempt early
NextAttempt_OneShort ==
    IF i + 2 < MaxAttempts
    THEN /\ i' = i + 1
         /\ pc' = "sleep"
         /\ exitCode' = exitCode
    ELSE /\ i' = i
         /\ pc' = "done"
         /\ exitCode' = 0

\* the end of one pass through the loop body: the next value of range(30),
\* or the end of the script when the range is used up
NextAttempt ==
    IF i + 1 < MaxAttempts
    THEN /\ i' = i + 1
         /\ pc' = "sleep"
         /\ exitCode' = exitCode
    ELSE /\ i' = i
         /\ pc' = "done"
         /\ exitCode' = 0

\* break out of the loop: nothing follows it in either script
Break ==
    /\ i' = i
    /\ pc' = "done"
    /\ exitCode' = 0

----------------------------------------------------------------------------
(* Actions.                                                                *)

\* the script is about to upload: the CSV file has been read (it is readable,
\* as section 4.1 of the specification requires of the input) and the
\* request is built
Init ==
    /\ script \in Scripts
    /\ pc = "post"
    /\ result = Empty
    /\ batch_id = None
    /\ i = 0
    /\ batches = << >>
    /\ batch = Empty
    /\ out = << >>
    /\ exc = None
    /\ exitCode = NotExited
    /\ posts = 0
    /\ sleeps = 0
    /\ gets = 0
    /\ allMissing = TRUE
    /\ fields = << >>
    /\ files = << >>
    /\ body = << >>
    /\ content_type = << >>

\* test-upload-simple.py: urlopen(req), json.loads, result.get('id')
PostSimple(r) ==
    /\ script = "simple"
    /\ pc = "post"
    /\ posts' = posts + 1
    /\ IF r.kind = "neterr" THEN
            /\ Raise("URLError", << >>)
            /\ UNCHANGED <<result, batch_id, i>>
       ELSE IF ~UrllibOk(r.code) THEN
            /\ Raise("HTTPError", << >>)
            /\ UNCHANGED <<result, batch_id, i>>
       ELSE IF ~r.json THEN
            /\ Raise("JSONDecodeError", << >>)
            /\ UNCHANGED <<result, batch_id, i>>
       ELSE /\ result' = r.body
            /\ batch_id' = BatchIdSimple(r.body)
            /\ out' = << <<"Upload successful", BatchIdSimple(r.body)>> >>
            /\ pc' = "sleep"
            /\ UNCHANGED <<i, exc, exitCode>>
    /\ UNCHANGED <<script, batches, batch, sleeps, gets, allMissing>>
    /\ UNCHANGED encVars

\* test-upload.py: requests.post, status_code == 200, response.json(),
\* result.get('batchId')
PostRequests(r) ==
    /\ script = "requests"
    /\ pc = "post"
    /\ posts' = posts + 1
    /\ IF r.kind = "neterr" THEN
            /\ Raise("ConnectionError", << >>)
            /\ UNCHANGED <<result, batch_id, i>>
       ELSE IF r.code # 200 THEN
            /\ out' = << <<"Upload failed with status code", r.code>> >>
            /\ pc' = "done"
            /\ exitCode' = 0
            /\ UNCHANGED <<result, batch_id, i, exc>>
       ELSE IF ~r.json THEN
            /\ Raise("JSONDecodeError", << >>)
            /\ UNCHANGED <<result, batch_id, i>>
       ELSE /\ result' = r.body
            /\ batch_id' = BatchIdRequests(r.body)
            /\ out' = << <<"Upload successful", BatchIdRequests(r.body)>> >>
            /\ pc' = "sleep"
            /\ UNCHANGED <<i, exc, exitCode>>
    /\ UNCHANGED <<script, batches, batch, sleeps, gets, allMissing>>
    /\ UNCHANGED encVars

\* a loop body without its sleep
Sleep_Skipped ==
    /\ pc = "sleep"
    /\ pc' = "get"
    /\ batches' = << >>
    /\ batch' = Empty
    /\ out' = << >>
    /\ UNCHANGED <<script, result, batch_id, i, exc, exitCode, posts, gets,
                   allMissing, sleeps>>
    /\ UNCHANGED encVars

\* time.sleep(10) at the head of the loop body. batches, batch and the
\* printed lines are those of the current pass: what the previous pass left
\* in them is never read again, and the pass starts without them
Sleep ==
    /\ pc = "sleep"
    /\ sleeps' = sleeps + 1
    /\ pc' = "get"
    /\ batches' = << >>
    /\ batch' = Empty
    /\ out' = << >>
    /\ UNCHANGED <<script, result, batch_id, i, exc, exitCode, posts, gets,
                   allMissing>>
    /\ UNCHANGED encVars

\* test-upload-simple.py: urlopen(status_req), json.loads
GetSimple(r) ==
    /\ script = "simple"
    /\ pc = "get"
    /\ gets' = gets + 1
    /\ IF r.kind = "neterr" THEN
            /\ Raise("URLError", << >>)
            /\ UNCHANGED <<batches, i>>
            /\ allMissing' = FALSE
       ELSE IF ~UrllibOk(r.code) THEN
            /\ Raise("HTTPError", << >>)
            /\ UNCHANGED <<batches, i>>
            /\ allMissing' = FALSE
       ELSE IF ~r.json THEN
            /\ Raise("JSONDecodeError", << >>)
            /\ UNCHANGED <<batches, i>>
            /\ allMissing' = FALSE
       ELSE /\ batches' = r.body
            /\ pc' = "locate"
            /\ UNCHANGED <<i, out, exc, exitCode, allMissing>>
    /\ UNCHANGED <<script, result, batch_id, batch, posts, sleeps>>
    /\ UNCHANGED encVars

\* test-upload.py: requests.get, status_code == 200, status_response.json()
GetRequests(r) ==
    /\ script = "requests"
    /\ pc = "get"
    /\ gets' = gets + 1
    /\ IF r.kind = "neterr" THEN
            /\ Raise("ConnectionError", << >>)
            /\ UNCHANGED <<batches, i>>
            /\ allMissing' = FALSE
       ELSE IF r.code # 200 THEN
            /\ out' = << <<"Failed to get batch status", r.code>> >>
            /\ NextAttempt
            /\ UNCHANGED <<batches, exc>>
            /\ allMissing' = FALSE
       ELSE IF ~r.json THEN
            /\ Raise("JSONDecodeError", << >>)
            /\ UNCHANGED <<batches, i>>
            /\ allMissing' = FALSE
       ELSE /\ batches' = r.body
            /\ pc' = "locate"
            /\ UNCHANGED <<i, out, exc, exitCode, allMissing>>
    /\ UNCHANGED <<script, result, batch_id, batch, posts, sleeps>>
    /\ UNCHANGED encVars

\* neither script warns
NotFoundLines_Silent == << >>

\* the warning of the branch taken when no record is located:
\* test-upload-simple.py has an else for "if batch", test-upload.py has none
NotFoundLines ==
    IF script = "simple"
    THEN << <<"not found in list", batch_id>> >>
    ELSE << >>

\* the lines printed after the snapshot when the loop breaks
CompletedLines ==
    IF script = "simple"
    THEN << <<"Batch processing completed successfully!">>,
            <<"All enrichment phases completed">> >>
    ELSE << <<"Batch processing completed!">> >>

\* the rest of the loop body: locate the record, print it, test its status
LocateAndPrint ==
    /\ pc = "locate"
    /\ LET found == Locate(batches, batch_id) IN
       IF found.kind = "KeyError" THEN
            /\ Raise("KeyError", << >>)
            /\ UNCHANGED <<batch, i>>
       ELSE IF found.kind = "none" \/ DOMAIN found.rec = {} THEN
            /\ batch' = Empty
            /\ out' = NotFoundLines
            /\ NextAttempt
            /\ UNCHANGED exc
       ELSE IF "status" \notin DOMAIN found.rec THEN
            /\ batch' = found.rec
            /\ Raise("KeyError", << <<"Time", i * SleepSeconds>> >>)
            /\ i' = i
       ELSE IF IsTerminal(found.rec) THEN
            /\ batch' = found.rec
            /\ out' = Snapshot(found.rec, i) \o CompletedLines
            /\ Break
            /\ UNCHANGED exc
       ELSE /\ batch' = found.rec
            /\ out' = Snapshot(found.rec, i)
            /\ NextAttempt
            /\ UNCHANGED exc
    /\ allMissing' = (allMissing /\ LacksTarget(batches, batch_id))
    /\ UNCHANGED <<script, result, batch_id, batches, posts, sleeps, gets>>
    /\ UNCHANGED encVars

Next ==
    \/ \E r \in UploadResponses : PostSimple(r)
    \/ \E r \in UploadResponses : PostRequests(r)
    \/ Sleep
    \/ \E r \in StatusResponses : GetSimple(r)
    \/ \E r \in StatusResponses : GetRequests(r)
    \/ LocateAndPrint

Spec == Init /\ [][Next]_vars

----------------------------------------------------------------------------
(* The encoder on its own: the call of line 50 with arguments drawn from   *)
(* the input sets, the polling state left as the script starts with it.    *)

EncInit ==
    /\ script = "simple"
    /\ pc = "encode"
    /\ result = Empty
    /\ batch_id = None
    /\ i = 0
    /\ batches = << >>
    /\ batch = Empty
    /\ out = << >>
    /\ exc = None
    /\ exitCode = NotExited
    /\ posts = 0
    /\ sleeps = 0
    /\ gets = 0
    /\ allMissing = TRUE
    /\ fields \in FieldMaps
    /\ files \in FileMaps
    /\ body = << >>
    /\ content_type = << >>

\* body, content_type = encode_multipart_formdata(fields, files)
EncodeCall(rnd) ==
    /\ pc = "encode"
    /\ LET ret == encode_multipart_formdata(fields, files, rnd) IN
       /\ body' = ret.body
       /\ content_type' = ret.content_type
    /\ pc' = "request"
    /\ UNCHANGED <<script, result, batch_id, i, batches, batch, out, exc,
                   exitCode, posts, sleeps, gets, allMissing, fields, files>>

EncNext == \E rnd \in RandomOutcomes : EncodeCall(rnd)

SpecEnc == EncInit /\ [][EncNext]_vars

----------------------------------------------------------------------------
(* Vocabulary of the properties, stated on the fetched list itself and not *)
(* through Locate.                                                         *)

\* entry k of bs carries the identifier t and no earlier entry does: it is
\* the record a linear search for t locates
TargetAt(bs, t, k) ==
    /\ k \in 1..Len(bs)
    /\ "id" \in DOMAIN bs[k]
    /\ bs[k]["id"] = t
    /\ \A j \in 1..(k - 1) : "id" \in DOMAIN bs[j] /\ bs[j]["id"] # t

\* the target record of bs has status "completed"
TargetCompleted(bs, t) ==
    \E k \in 1..Len(bs) :
        /\ TargetAt(bs, t, k)
        /\ "status" \in DOMAIN bs[k]
        /\ bs[k]["status"] = "completed"

\* the target record of bs has a status other than "completed"
TargetNotCompleted(bs, t) ==
    \E k \in 1..Len(bs) :
        /\ TargetAt(bs, t, k)
        /\ "status" \in DOMAIN bs[k]
        /\ bs[k]["status"] # "completed"

\* the loop goes on after this pass: to the next attempt while the budget
\* lasts, to the normal end of the script when this was attempt 30
Continues ==
    /\ exc' = None
    /\ IF i + 1 < MaxAttempts
       THEN pc' = "sleep" /\ i' = i + 1 /\ exitCode' = NotExited
       ELSE pc' = "done" /\ sleeps = MaxAttempts /\ gets = MaxAttempts
            /\ exitCode' = 0

\* nothing is requested and nothing is slept once the script has ended
Ended == pc = "done" => pc' = "done" /\ UNCHANGED <<posts, sleeps, gets>>

UploadFailed ==
    /\ pc = "done"
    /\ DOMAIN result = {}

----------------------------------------------------------------------------
(* C1: in both scripts the polling loop stops at the first attempt whose   *)
(* fetched list holds the target record with status "completed": that pass *)
(* ends the script normally, and no sleep and no GET follows it.           *)
C1_StopsAtFirstCompleted ==
    [][/\ (pc = "locate" /\ TargetCompleted(batches, batch_id))
            => /\ pc' = "done"
               /\ exc' = None
               /\ exitCode' = 0
               /\ UNCHANGED <<sleeps, gets, posts>>
       /\ Ended]_vars

C1_Witness ==
    /\ pc = "done"
    /\ TargetCompleted(batches, batch_id)
    /\ gets > 1
    /\ gets < MaxAttempts
    /\ sleeps = gets

(* C2: in both scripts, when every status fetch gave a list of batch       *)
(* objects without the target identifier, the loop has made exactly 30     *)
(* attempts (30 sleeps, 30 GETs) when the script ends, no exception was    *)
(* raised, and the exit code is 0, the one of a completed batch.           *)
C2_ThirtyAttemptsWhenNeverListed ==
    (pc = "done" /\ sleeps > 0 /\ allMissing)
        => /\ sleeps = MaxAttempts
           /\ gets = MaxAttempts
           /\ exc = None
           /\ exitCode = 0

C2_Witness ==
    /\ pc = "done"
    /\ allMissing
    /\ gets = MaxAttempts
    /\ script = "requests"
    /\ batch_id = "b1"

(* C3, as stated: in both scripts an attempt whose fetched list lacks the  *)
(* target identifier prints a warning and continues to the next attempt.   *)
C3_Original ==
    [][(pc = "locate" /\ LacksTarget(batches, batch_id))
            => /\ out' = << <<"not found in list", batch_id>> >>
               /\ Continues]_vars

(* C3, amended: in both scripts such an attempt raises nothing and         *)
(* continues to the next attempt; test-upload-simple.py prints the         *)
(* warning, test-upload.py prints nothing.                                 *)
C3_ContinuesWhenNotListed ==
    [][(pc = "locate" /\ LacksTarget(batches, batch_id))
            => /\ Continues
               /\ batch' = Empty
               /\ script = "simple"
                    => out' = << <<"not found in list", batch_id>> >>
               /\ script = "requests" => out' = << >>]_vars

C3_Witness ==
    /\ script = "simple"
    /\ pc = "sleep"
    /\ i > 0
    /\ Len(batches) > 0
    /\ LacksTarget(batches, batch_id)
    /\ out = << <<"not found in list", batch_id>> >>

(* C4: "completed" is the only status that stops the loop early: a pass    *)
(* whose target record has another status continues to the next attempt    *)
(* until the budget of 30 is used up, and a script that ended normally     *)
(* before attempt 30 located a record with status "completed".             *)
C4_OnlyCompletedStops ==
    [][/\ (pc = "locate" /\ TargetNotCompleted(batches, batch_id))
            => Continues
       /\ (pc' = "done" /\ pc # "done" /\ pc # "post" /\ exc' = None
              /\ sleeps < MaxAttempts)
            => /\ "status" \in DOMAIN batch'
               /\ batch'["status"] = "completed"]_vars

C4_Witness ==
    /\ pc = "done"
    /\ exc = None
    /\ sleeps = MaxAttempts
    /\ TargetNotCompleted(batches, batch_id)
    /\ batch["status"] = "failed"

(* C5: one POST, never retried; every GET follows a successful upload and  *)
(* exactly one sleep taken since the previous GET, so GETs never outnumber *)
(* sleeps and neither exceeds 30; a failed upload is followed by no sleep  *)
(* and no GET.                                                             *)
C5_Counts ==
    /\ posts = (IF pc = "post" THEN 0 ELSE 1)
    /\ gets <= sleeps
    /\ sleeps <= MaxAttempts
    /\ (sleeps > 0 \/ gets > 0) => DOMAIN result # {}
    /\ UploadFailed => sleeps = 0 /\ gets = 0

C5_OnePostThenSleepBeforeGet ==
    [][/\ C5_Counts
       /\ C5_Counts'
       /\ posts' # posts => posts = 0 /\ posts' = 1 /\ sleeps = 0 /\ gets = 0
       /\ gets' # gets => gets' = gets + 1 /\ sleeps = gets + 1 /\ posts = 1
       /\ sleeps' # sleeps => sleeps' = sleeps + 1 /\ sleeps = gets
       /\ Ended]_vars

C5_Witness ==
    /\ pc = "done"
    /\ posts = 1
    /\ gets = MaxAttempts
    /\ sleeps = MaxAttempts

(* C8: in both scripts a located record that carries a status and lacks    *)
(* any of the optional fields is printed with the placeholder of each      *)
(* missing field ("N/A", 0, "pending"), raises nothing, and the pass goes  *)
(* on to the terminal test: it ends the loop exactly when the status is    *)
(* "completed" or the budget is used up.                                   *)
C8_Default(b, f, line, pos, default) ==
    f \notin DOMAIN b => out'[line][pos] = default

C8_DefaultsForMissingFields ==
    [][\A k \in 1..Len(batches) :
         (pc = "locate" /\ TargetAt(batches, batch_id, k)
              /\ "status" \in DOMAIN batches[k])
            => LET b == batches[k] IN
               /\ exc' = None
               /\ batch' = b
               /\ Len(out') >= 8
               /\ out'[2] = <<"Status", b["status"]>>
               /\ C8_Default(b, "currentStep", 3, 2, "N/A")
               /\ C8_Default(b, "processedRecords", 4, 2, 0)
               /\ C8_Default(b, "totalRecords", 4, 3, 0)
               /\ C8_Default(b, "finexioMatchingStatus", 5, 2, "pending")
               /\ C8_Default(b, "googleAddressStatus", 6, 2, "pending")
               /\ C8_Default(b, "mastercardEnrichmentStatus", 7, 2, "pending")
               /\ C8_Default(b, "akkioPredictionStatus", 8, 2, "pending")
               /\ (pc' = "done")
                    <=> (b["status"] = "completed" \/ i + 1 = MaxAttempts)]_vars

C8_Witness ==
    /\ pc = "sleep"
    /\ script = "requests"
    /\ DOMAIN batch = {"id", "status", "totalRecords"}
    /\ Len(out) = 8
    /\ out[3] = <<"Current Step", "N/A">>
    /\ out[4] = <<"Classification", 0, 7>>
    /\ out[8] = <<"Akkio", "pending">>

(* C9: in test-upload-simple.py an exception raised by the upload or by a  *)
(* polling attempt is caught and printed, the script ends with exit code 0 *)
(* and issues no sleep and no request after it; in test-upload.py the      *)
(* exception is not caught, nothing is printed for it and the script       *)
(* aborts. A list entry without id met before the target, and a located    *)
(* record without status, raise in both.                                   *)
C9_EntryRaises(bs, t) ==
    \E k \in 1..Len(bs) :
        /\ \A j \in 1..(k - 1) : "id" \in DOMAIN bs[j] /\ bs[j]["id"] # t
        /\ \/ "id" \notin DOMAIN bs[k]
           \/ bs[k]["id"] = t /\ "status" \notin DOMAIN bs[k]

C9_BroadHandlerOnlyInSimple ==
    [][/\ (pc = "locate" /\ C9_EntryRaises(batches, batch_id))
            => exc' = "KeyError"
       /\ (exc = None /\ exc' # None)
            => /\ pc' = "done"
               /\ IF script = "simple"
                  THEN /\ exitCode' = 0
                       /\ out'[Len(out')] = <<"Error", exc'>>
                  ELSE /\ exitCode' = 1
                       /\ \A n \in 1..Len(out') : out'[n][1] # "Error"
       /\ Ended]_vars

C9_Witness ==
    /\ script = "simple"
    /\ pc = "done"
    /\ exc = "JSONDecodeError"
    /\ exitCode = 0
    /\ gets > 1
    /\ out = << <<"Error", "JSONDecodeError">> >>

(* C10: test-upload.py reads batchId: when the upload answers with the     *)
(* identifier under id only, the target is None, a list whose entries all  *)
(* have a non-null id never yields a record, and the loop goes through all *)
(* 30 attempts even when the first poll lists the uploaded batch as        *)
(* "completed"; test-upload-simple.py reads id and stops at that poll.     *)
C10_NonNullIds(bs) ==
    \A k \in 1..Len(bs) : "id" \in DOMAIN bs[k] /\ bs[k]["id"] # None

C10_IdOnly == DOMAIN result = {"id"}

C10_BatchIdFieldMismatch ==
    [][/\ (script = "requests" /\ C10_IdOnly /\ pc # "post")
            => batch_id = None
       /\ (script = "requests" /\ C10_IdOnly /\ pc = "locate"
              /\ C10_NonNullIds(batches))
            => batch' = Empty /\ Continues
       /\ (script = "simple" /\ C10_IdOnly /\ pc = "locate" /\ i = 0
              /\ TargetCompleted(batches, result["id"]))
            => pc' = "done" /\ exc' = None /\ gets' = 1 /\ sleeps' = 1]_vars

C10_Witness ==
    /\ script = "requests"
    /\ C10_IdOnly
    /\ pc = "done"
    /\ sleeps = MaxAttempts
    /\ exc = None
    /\ TargetCompleted(batches, result["id"])

----------------------------------------------------------------------------
(* Vocabulary of the encoder's properties: a reader of multipart/form-data *)
(* (RFC 2046 section 5.1.1, RFC 7578), written from the format and not     *)
(* from the encoder.                                                       *)

\* pat occurs in s at position p
IsAt(s, pat, p) ==
    /\ p >= 1
    /\ p + Len(pat) - 1 <= Len(s)
    /\ \A k \in 1..Len(pat) : s[p + k - 1] = pat[k]

\* the positions from..Len(s) at which pat occurs in s
Occurrences(s, pat, from) ==
    {p \in from..(Len(s) - Len(pat) + 1) : IsAt(s, pat, p)}

Min(S) == CHOOSE x \in S : \A y \in S : x <= y

RECURSIVE Sorted(_)
Sorted(S) == IF S = {} THEN << >> ELSE <<Min(S)>> \o Sorted(S \ {Min(S)})

\* the positions at which pat starts a line of s
LineStarts(s, pat) ==
    {p \in Occurrences(s, pat, 1) : p = 1 \/ IsAt(s, CRLF, p - 2)}

\* bytes.decode(): the code points of a UTF-8 text, <<-1>> when it is none
RECURSIVE Utf8Decode(_)
Utf8Decode(bs) ==
    IF bs = << >> THEN << >>
    ELSE LET b == bs[1]
             n == IF b < 128 THEN 1
                  ELSE IF b >= 192 /\ b < 224 THEN 2
                  ELSE IF b >= 224 /\ b < 240 THEN 3
                  ELSE IF b >= 240 /\ b < 248 THEN 4 ELSE 0
         IN  IF n = 0 \/ n > Len(bs)
                \/ \E k \in 2..n : bs[k] < 128 \/ bs[k] >= 192
             THEN <<-1>>
             ELSE LET cp == CASE n = 1 -> b
                              [] n = 2 -> (b - 192) * 64 + (bs[2] - 128)
                              [] n = 3 -> (b - 224) * 4096 + (bs[2] - 128) * 64
                                          + (bs[3] - 128)
                              [] n = 4 -> (b - 240) * 262144
                                          + (bs[2] - 128) * 4096
                                          + (bs[3] - 128) * 64 + (bs[4] - 128)
                      rest == Utf8Decode(SubSeq(bs, n + 1, Len(bs)))
                  IN  IF rest # << >> /\ rest[Len(rest)] = -1
                      THEN <<-1>>
                      ELSE <<cp>> \o rest

\* 'boundary='
BoundaryParam == <<98, 111, 117, 110, 100, 97, 114, 121, 61>>

\* 'Content-Disposition: form-data'
DispositionFormData ==
    <<67, 111, 110, 116, 101, 110, 116, 45, 68, 105, 115, 112, 111, 115,
    105, 116, 105, 111, 110, 58, 32, 102, 111, 114, 109, 45, 100, 97, 116,
    97>>

\* the boundary parameter of a Content-Type value
ParseBoundary(ct) ==
    LET at == Occurrences(ct, BoundaryParam, 1) IN
    IF at = {} THEN << >>
    ELSE SubSeq(ct, Min(at) + Len(BoundaryParam), Len(ct))

\* the number of double quotes of line at positions a..b
QuotesIn(line, a, b) == Cardinality({k \in a..b : line[k] = 34})

\* str.strip() of spaces
RECURSIVE Strip(_)
Strip(str) ==
    IF str = << >> THEN str
    ELSE IF str[1] = 32 THEN Strip(Tail(str))
    ELSE IF str[Len(str)] = 32 THEN Strip(SubSeq(str, 1, Len(str) - 1))
    ELSE str

\* a value without the double quotes around it, when it has them
Unquote(str) ==
    IF Len(str) >= 2 /\ str[1] = 34 /\ str[Len(str)] = 34
    THEN SubSeq(str, 2, Len(str) - 1)
    ELSE str

\* the parameters ';key=value' of a header line from position p on, as a
\* sequence of <<key, value>>; a last element <<-1>> marks a malformed line.
\* A parameter ends at the next ';' that is outside double quotes, read as
\* leniently as a reader may: a quote inside a quoted value is kept as long
\* as the parameter still ends with a quote.
RECURSIVE ParseParams(_, _)
ParseParams(line, p) ==
    IF p > Len(line) THEN << >>
    ELSE IF line[p] # 59 THEN << <<-1>> >>
    ELSE LET ends == {q \in (p + 1)..Len(line) :
                         line[q] = 59 /\ QuotesIn(line, p + 1, q - 1) % 2 = 0}
             e == IF ends = {} THEN Len(line) + 1 ELSE Min(ends)
             seg == Strip(SubSeq(line, p + 1, e - 1))
             eq == Occurrences(seg, <<61>>, 1)
         IN  IF eq = {} THEN << <<-1>> >>
             ELSE << <<Strip(SubSeq(seg, 1, Min(eq) - 1)),
                       Unquote(Strip(SubSeq(seg, Min(eq) + 1, Len(seg))))>> >>
                  \o ParseParams(line, e)

ParamValue(params, key) ==
    LET at == {k \in 1..Len(params) : params[k][1] = key} IN
    IF at = {} THEN <<-1>> ELSE params[Min(at)][2]

\* one part (the bytes between two delimiters): its headers up to the first
\* empty line, its content after it
ParsePart(raw) ==
    LET ends == Occurrences(raw, CRLF \o CRLF, 1) IN
    IF ends = {} THEN [ok |-> FALSE]
    ELSE LET h == Min(ends)
             headers == SubSeq(raw, 1, h - 1)
             eol == Occurrences(headers, CRLF, 1)
             first == IF eol = {} THEN headers
                      ELSE SubSeq(headers, 1, Min(eol) - 1)
             params == ParseParams(first, Len(DispositionFormData) + 1)
         IN  IF \/ ~IsAt(first, DispositionFormData, 1)
                \/ (params # << >> /\ params[Len(params)] = <<-1>>)
             THEN [ok |-> FALSE]
             ELSE [ok |-> TRUE,
                   name |-> Utf8Decode(ParamValue(params, <<110, 97, 109, 101>>)),
                   filename |-> Utf8Decode(ParamValue(params,
                                   <<102, 105, 108, 101, 110, 97, 109, 101>>)),
                   content |-> SubSeq(raw, h + 4, Len(raw))]

\* the parts after the dash-boundary that ends at position p - 1; a last
\* element [ok |-> FALSE] marks a malformed body
RECURSIVE ParseFrom(_, _, _)
ParseFrom(bs, dash, p) ==
    IF IsAt(bs, Dashes, p) THEN << >>
    ELSE IF ~IsAt(bs, CRLF, p) THEN <<[ok |-> FALSE]>>
    ELSE LET next == Occurrences(bs, CRLF \o dash, p + 2) IN
         IF next = {} THEN <<[ok |-> FALSE]>>
         ELSE LET q == Min(next) IN
              <<ParsePart(SubSeq(bs, p + 2, q - 1))>>
              \o ParseFrom(bs, dash, q + 2 + Len(dash))

\* the parts of a body delimited by boundary
ParseMultipart(bs, boundary) ==
    LET dash == Encode(Dashes \o boundary) IN
    IF ~IsAt(bs, dash, 1) THEN <<[ok |-> FALSE]>>
    ELSE ParseFrom(bs, dash, 1 + Len(dash))

\* the reader recovers from <<body, content_type>> the items of fs and fl
RoundTrip(bs, ct, fs, fl) ==
    LET parts == ParseMultipart(bs, ParseBoundary(ct))
        n == Len(fs)
    IN  /\ Len(parts) = n + Len(fl)
        /\ \A k \in 1..Len(parts) : parts[k].ok
        /\ \A k \in 1..n :
              /\ parts[k].name = fs[k][1]
              /\ parts[k].filename = <<-1>>
              /\ Utf8Decode(parts[k].content) = fs[k][2]
        /\ \A k \in 1..Len(fl) :
              /\ parts[n + k].name = fl[k][1]
              /\ parts[n + k].filename = fl[k][2][1]
              /\ parts[n + k].content = fl[k][2][2]

\* the boundary of the Content-Type is the token of every delimiter line of
\* bs: every line that starts with "--" and the boundary prefix
BoundaryMatches(bs, ct) ==
    LET token == Encode(Dashes \o ParseBoundary(ct)) IN
    /\ ParseBoundary(ct) # << >>
    /\ \A p \in LineStarts(bs, Encode(Dashes \o BoundaryPrefix)) :
          /\ IsAt(bs, token, p)
          /\ \/ IsAt(bs, CRLF, p + Len(token))
             \/ IsAt(bs, Dashes \o CRLF, p + Len(token))

HasQuote(str) == \E k \in 1..Len(str) : str[k] = 34

\* no key and no file name contains a double quote
QuoteFree(fs, fl) ==
    /\ \A k \in 1..Len(fs) : ~HasQuote(fs[k][1])
    /\ \A k \in 1..Len(fl) : ~HasQuote(fl[k][1]) /\ ~HasQuote(fl[k][2][1])

----------------------------------------------------------------------------
(* C6: a conforming reader given the returned content type and body        *)
(* recovers the field names and values and the file's name and bytes, for  *)
(* any fields and any file bytes; the boundary of the content type is the  *)
(* token of every delimiter of the body.                                   *)
C6_RoundTrip ==
    pc = "request"
        => /\ RoundTrip(body, content_type, fields, files)
           /\ BoundaryMatches(body, content_type)

\* what does hold of the encoder: the round trip for keys and file names
\* without a double quote, whatever the values and the file bytes (CR, LF
\* and bytes that are no UTF-8 included), and the boundary match always
C6_RoundTripQuoteFree ==
    pc = "request"
        => /\ QuoteFree(fields, files)
              => RoundTrip(body, content_type, fields, files)
           /\ BoundaryMatches(body, content_type)

C6_RoundTripQuoteFreeWitness ==
    /\ pc = "request"
    /\ QuoteFree(fields, files)
    /\ Len(fields) = MaxFields
    /\ \E k \in 1..Len(fields) : fields[k][2] = <<13, 10, 45, 45>>
    /\ files[1][2][2] = CRLF

(* C7: the body holds one boundary-delimited part per field and one for    *)
(* the file, the fields first and in the order of the mapping, then the    *)
(* file; the headers of each part end with an empty line; the body ends    *)
(* with the one closing boundary line, the boundary followed by "--".      *)
C7_FieldHeaders(fs, k) ==
    Encode(DispositionName \o fs[k][1] \o Quote \o CRLF \o CRLF)

C7_FileHeaders(fl, k) ==
    Encode(DispositionName \o fl[k][1] \o DispositionFilename \o fl[k][2][1]
           \o Quote \o CRLF \o ContentTypeCsv \o CRLF \o CRLF)

C7_PartStructure ==
    pc = "request" =>
        LET boundary == ParseBoundary(content_type)
            line == Encode(Dashes \o boundary \o CRLF)
            closing == Encode(Dashes \o boundary \o Dashes \o CRLF)
            starts == Sorted(LineStarts(body, line))
            n == Len(fields)
        IN  /\ Len(starts) = n + 1
            /\ Len(files) = 1
            /\ \A k \in 1..n :
                  IsAt(body, C7_FieldHeaders(fields, k), starts[k] + Len(line))
            /\ IsAt(body, C7_FileHeaders(files, 1), starts[n + 1] + Len(line))
            /\ LineStarts(body, closing) = {Len(body) - Len(closing) + 1}
            /\ Occurrences(body, Encode(Dashes \o boundary \o Dashes), 1)
                   = {Len(body) - Len(closing) + 1}

C7_Witness ==
    /\ pc = "request"
    /\ Len(fields) = MaxFields
    /\ Cardinality(LineStarts(body, Encode(Dashes \o ParseBoundary(content_type) \o CRLF)))
           = MaxFields + 1

====
